---------------------------- MODULE Spec2Model ----------------------------
(***************************************************************************)
(* pyantidote (antidote.py): the threat store (class DB over sqlite3), the *)
(* threaded file scanner (class FileScanner) and the polling network       *)
(* monitor (class NetworkScanner), as state machines.                      *)
(***************************************************************************)
EXTENDS Integers, Sequences, FiniteSets, TLC

VARIABLES
    \* ---- class DB: the sqlite file and the ingesting handle (Main's "with DB() as db")
    db_file,        \* committed content of data.db
    conn,           \* the handle's connection: "closed" | "open"
    txn,            \* the handle's open transaction: [active, image], image its uncommitted view
    ret,            \* the handle's last add/exists call and what it returned
    err,            \* the exception the handle's last call raised ("none" if none)
    added,          \* history: values DB.add accepted per table since the tables were created
    reader_ret,     \* what the last lookup through a handle of its own (a worker's DB()) returned
    \* ---- class FileScanner: one scan(folder, max_threads) of one FileScanner object
    listing,        \* the paths os.walk(folder) yields, in its order
    max_threads,    \* scan's argument
    scanPc,         \* where scan() is: "idle" "while" "sleep" "except" "done" "raised"
    fp_gen,         \* the paths the generator has yet to yield
    count,          \* scan's local count
    s_bound,        \* whether scan's local s has been assigned
    scan_exc,       \* the exception scan() raised to its caller ("none" if none)
    bad_files,      \* self._bad_files
    printed,        \* the summary scan printed: [done, count, infected]
    thread,         \* per path, the thread running compare_against_database(path)
    \* ---- class NetworkScanner: one monitor object and its thread
    netPc,          \* where run() is: "unstarted" "while" "update" "scan" "sleep" "exited" "crashed"
    running,        \* self._running
    current_connections,      \* self._current_connections, the last snapshot
    displayed_notifications,  \* self._displayed_notifications
    delivered,      \* the alert bodies handed to print / show_toast, in order
    net_exc,        \* the exception that ended run() ("none" if none)
    ticks,          \* history: passes of NetworkScanner.scan completed by run()
    persisting,     \* history: the alert bodies that matched in every completed pass
    calls           \* history: the db.exists and notify calls of the last pass of scan

storeVars == <<db_file, conn, txn, ret, err, added, reader_ret>>

scanVars == <<listing, max_threads, scanPc, fp_gen, count, s_bound, scan_exc, bad_files,
              printed, thread>>

netVars == <<netPc, running, current_connections, displayed_notifications, delivered,
             net_exc, ticks, persisting, calls>>

vars == <<db_file, conn, txn, ret, err, added, reader_ret,
          listing, max_threads, scanPc, fp_gen, count, s_bound, scan_exc, bad_files,
          printed, thread,
          netPc, running, current_connections, displayed_notifications, delivered,
          net_exc, ticks, persisting, calls>>

None == "None"

-----------------------------------------------------------------------------
(* class DB *)

\* The three tables of create_tables, each with its single TEXT NOT NULL UNIQUE column.
Tables == {"virus_md5_hashes", "processed_virusshare_urls", "high_risk_ips"}

ColumnOf ==
    [virus_md5_hashes |-> "md5_hash", processed_virusshare_urls |-> "url", high_risk_ips |-> "ip"]

Columns == {"md5_hash", "url", "ip"}

\* hashlib.md5(...).hexdigest() of the file contents the scanner model uses.
MD5_empty == "d41d8cd98f00b204e9800998ecf8427e"
MD5_nul == "93b885adfe0da089cdf634904fd59f71"
MD5_mz == "5ed85ee67e22aa800f010854f9f2d4b1"
MD5_hi == "49f68a5c8493ec2c0bf489821c21fc3b"

\* The values a feed may hand to DB.add, per table; None stands for Python's None.
FeedValues ==
    [virus_md5_hashes |-> {MD5_nul, MD5_hi},
     processed_virusshare_urls |-> {"https://virusshare.com/hashes/0"},
     high_risk_ips |-> {"203.0.113.9"}]

\* A database file that sqlite3.connect has just created: no table yet.
EmptyRows == [t \in Tables |-> <<>>]

NewFile == [tables |-> FALSE, rows |-> EmptyRows]

\* The image the handle's cursor reads and writes: its own transaction when one is open.
NoTxn == [active |-> FALSE, image |-> NewFile]

View == IF txn.active THEN txn.image ELSE db_file

\* self.conn.commit() on a handle whose transaction is t: the file afterwards.
handle_commit(file, t) == IF t.active THEN t.image ELSE file

\* Python's bool results, as the strings repr() gives them.
PyBool(b) == IF b THEN "True" ELSE "False"

NoRet == [op |-> None, table |-> None, value |-> None, result |-> None]

NoReaderRet == [table |-> None, value |-> None, result |-> None, ingesting |-> FALSE]

Range(s) == {s[i] : i \in DOMAIN s}

\* DB.connect (via DB.__init__): sqlite3.connect opens data.db, creating it when missing.
DB_connect ==
    /\ conn = "closed"
    /\ conn' = "open"
    /\ txn' = NoTxn
    /\ ret' = NoRet
    /\ err' = "none"
    /\ UNCHANGED <<db_file, added, reader_ret>>
    /\ UNCHANGED <<scanVars, netVars>>

\* DB.close (also DB.__exit__): commit, close the cursor, close the connection.
DB_close ==
    /\ conn = "open"
    /\ db_file' = View
    /\ txn' = NoTxn
    /\ conn' = "closed"
    /\ ret' = NoRet
    /\ err' = "none"
    /\ UNCHANGED <<added, reader_ret>>
    /\ UNCHANGED <<scanVars, netVars>>

\* self.conn.commit() (create_tables, drop_tables, update_md5_hashes line 106).
DB_commit ==
    /\ conn = "open"
    /\ db_file' = View
    /\ txn' = NoTxn
    /\ ret' = NoRet
    /\ err' = "none"
    /\ UNCHANGED <<conn, added, reader_ret>>
    /\ UNCHANGED <<scanVars, netVars>>

\* DB.create_tables: CREATE TABLE IF NOT EXISTS x3, then commit.
create_tables ==
    /\ conn = "open"
    /\ db_file' = [View EXCEPT !.tables = TRUE]
    /\ txn' = NoTxn
    /\ added' = IF View.tables THEN added ELSE [t \in Tables |-> {}]
    /\ ret' = NoRet
    /\ err' = "none"
    /\ UNCHANGED <<conn, reader_ret>>
    /\ UNCHANGED <<scanVars, netVars>>

\* DB.drop_tables: DROP TABLE IF EXISTS x3, then commit.
drop_tables ==
    /\ conn = "open"
    /\ db_file' = NewFile
    /\ txn' = NoTxn
    /\ added' = [t \in Tables |-> {}]
    /\ ret' = NoRet
    /\ err' = "none"
    /\ UNCHANGED <<conn, reader_ret>>
    /\ UNCHANGED <<scanVars, netVars>>

\* Variant: reset that recreates the tables without removing the file.
reset_keeps_file ==
    /\ conn = "open"
    /\ db_file' = [View EXCEPT !.tables = TRUE]
    /\ txn' = NoTxn
    /\ added' = [t \in Tables |-> {}]
    /\ ret' = [op |-> "reset", table |-> None, value |-> None, result |-> None]
    /\ err' = "none"
    /\ UNCHANGED <<conn, reader_ret>>
    /\ UNCHANGED <<scanVars, netVars>>

\* DB.reset: close() commits and closes, os.remove deletes data.db, connect()
\* creates it anew, and update() begins with create_tables. The feed records
\* update() then loads are the DB_add and DB_commit steps that follow.
reset ==
    /\ conn = "open"
    /\ LET closed == handle_commit(db_file, txn)
           removed == NewFile
           connected == removed IN
       db_file' = [connected EXCEPT !.tables = TRUE]
    /\ txn' = NoTxn
    /\ added' = [t \in Tables |-> {}]
    /\ ret' = [op |-> "reset", table |-> None, value |-> None, result |-> None]
    /\ err' = "none"
    /\ UNCHANGED <<conn, reader_ret>>
    /\ UNCHANGED <<scanVars, netVars>>

\* What sqlite raises for INSERT INTO table VALUES (value) on `image`:
\* the column is TEXT NOT NULL UNIQUE.
IntegrityError(image, table, value) ==
    IF value = None THEN "NOT NULL constraint failed"
    ELSE IF value \in Range(image.rows[table]) THEN "UNIQUE constraint failed"
    ELSE "none"

\* The handler of DB.add: a UNIQUE violation is swallowed, any other IntegrityError re-raised.
add_except(e) == e = "UNIQUE constraint failed"

\* Variant: the column declared without UNIQUE.
INSERT_no_unique(image, table, value) ==
    [image EXCEPT !.rows[table] = Append(@, value)]

\* The row INSERT appends.
INSERT(image, table, value) ==
    IF IntegrityError(image, table, value) = "none"
    THEN [image EXCEPT !.rows[table] = Append(@, value)]
    ELSE image

\* DB.add(table, value).
DB_add(table, value) ==
    /\ conn = "open"
    /\ ret' = [op |-> "add", table |-> table, value |-> value, result |-> None]
    /\ IF ~View.tables
       THEN \* sqlite3.OperationalError: no such table
            /\ err' = "OperationalError"
            /\ UNCHANGED <<db_file, conn, txn, added, reader_ret>>
       ELSE LET e == IntegrityError(View, table, value)
                after == INSERT(View, table, value) IN
            /\ txn' = IF after = View THEN txn ELSE [active |-> TRUE, image |-> after]
            /\ err' = IF e = "none" \/ add_except(e) THEN "none" ELSE "IntegrityError"
            /\ added' = IF e = "none" \/ add_except(e)
                        THEN [added EXCEPT ![table] = @ \cup ({value} \ {None})]
                        ELSE added
            /\ UNCHANGED <<db_file, conn, reader_ret>>
    /\ UNCHANGED <<scanVars, netVars>>

\* Variant: the SELECT without its WHERE clause.
SELECT_any_row(image, vname, table, value) ==
    IF ~image.tables \/ ColumnOf[table] # vname THEN "OperationalError"
    ELSE PyBool(image.rows[table] # <<>>)

\* SELECT vname FROM table WHERE vname = (?) ; fetchone() is not None.
\* A missing table or a column the table does not have is an OperationalError.
SELECT(image, vname, table, value) ==
    IF ~image.tables \/ ColumnOf[table] # vname THEN "OperationalError"
    ELSE PyBool(\E i \in DOMAIN image.rows[table] : image.rows[table][i] = value)

\* DB.exists(vname, table, value) on the ingesting handle.
DB_exists(vname, table, value) ==
    /\ conn = "open"
    /\ LET r == SELECT(View, vname, table, value) IN
       /\ ret' = [op |-> "exists", table |-> table, value |-> value, result |-> r]
       /\ err' = IF r = "OperationalError" THEN r ELSE "none"
    /\ UNCHANGED <<db_file, conn, txn, added, reader_ret>>
    /\ UNCHANGED <<scanVars, netVars>>

\* A handle of its own, as in compare_against_database / NetworkScanner.scan:
\* "with DB() as db: db.exists(...)"; it reads the committed file, and its close commits nothing.
Reader_exists(vname, table, value) ==
    /\ reader_ret' = [table |-> table, value |-> value,
                      result |-> SELECT(db_file, vname, table, value),
                      ingesting |-> conn = "open"]
    /\ UNCHANGED <<db_file, conn, txn, ret, err, added>>
    /\ UNCHANGED <<scanVars, netVars>>

InitStore ==
    /\ db_file = NewFile
    /\ conn = "closed"
    /\ txn = NoTxn
    /\ ret = NoRet
    /\ err = "none"
    /\ added = [t \in Tables |-> {}]
    /\ reader_ret = NoReaderRet

NextStore ==
    \/ DB_connect
    \/ DB_close
    \/ DB_commit
    \/ create_tables
    \/ drop_tables
    \/ reset
    \/ \E t \in Tables : \E v \in FeedValues[t] \cup {None} : DB_add(t, v)
    \/ \E t \in Tables : \E v \in FeedValues[t] : DB_exists(ColumnOf[t], t, v)
    \/ \E t \in Tables : \E v \in FeedValues[t] : Reader_exists(ColumnOf[t], t, v)

-----------------------------------------------------------------------------
(* Claims about the store *)

\* DB.exists for every table and value, as a function of an image.
ExistsAll(image) ==
    [t \in Tables |-> [v \in FeedValues[t] \cup {None} |-> SELECT(image, ColumnOf[t], t, v)]]

AddedAll ==
    [t \in Tables |-> [v \in FeedValues[t] \cup {None} |-> PyBool(v \in added[t])]]

\* The parts of C3: what exists returns on each handle, and a lookup made after ingestion.
C3_Inv ==
    /\ (conn = "open" /\ View.tables) => ExistsAll(View) = AddedAll
    /\ (conn = "closed" /\ db_file.tables) => ExistsAll(db_file) = AddedAll
    /\ (ret.op = "exists" /\ ret.result # "OperationalError")
          => ret.result = PyBool(ret.value \in added[ret.table])

C3_ReaderStep ==
    (reader_ret' # reader_ret /\ conn = "closed" /\ db_file.tables)
        => reader_ret'.result = PyBool(reader_ret'.value \in added[reader_ret'.table])

\* C3: DB.exists(column, table, v) is True exactly for the values added to that
\* table since the tables were created: on the ingesting handle at any time, in
\* every result it returned, and, once the handle is closed (committed), in the
\* file every later handle reads; a lookup through a handle of its own made after
\* ingestion finished returns the same.
C3_ExistsIffAdded == []C3_Inv /\ [][C3_ReaderStep]_vars

\* C3 witness: ingestion has finished with one hash added and one not; a handle
\* opened afterwards found the added one.
C3_Witness ==
    /\ conn = "closed"
    /\ added["virus_md5_hashes"] = {MD5_nul}
    /\ ~reader_ret.ingesting
    /\ reader_ret.table = "virus_md5_hashes"
    /\ reader_ret.value = MD5_nul
    /\ reader_ret.result = "True"
    /\ ExistsAll(db_file)["virus_md5_hashes"][MD5_hi] = "False"

NoDuplicates(image) ==
    \A t \in Tables : Cardinality(Range(image.rows[t])) = Len(image.rows[t])

\* A step of C4: DB.add of a value the table already holds.
C4_DupAddStep ==
    \A t \in Tables : \A v \in FeedValues[t] :
        (DB_add(t, v) /\ View.tables /\ v \in added[t])
            => (err' = "none" /\ ExistsAll(View)' = ExistsAll(View))

\* C4: adding a value that was already added raises no error and leaves the
\* result of DB.exists unchanged for every table and value; no table ever holds
\* a value twice.
C4_AddIdempotent ==
    [](NoDuplicates(db_file) /\ NoDuplicates(View)) /\ [][C4_DupAddStep]_vars

\* C4 witness: the last call was an add of a value the committed table already
\* held (no transaction was opened by it), and it raised nothing.
C4_Witness ==
    /\ ret.op = "add"
    /\ ret.value # None
    /\ conn = "open"
    /\ ~txn.active
    /\ db_file.tables
    /\ ret.value \in Range(db_file.rows[ret.table])
    /\ err = "none"

-----------------------------------------------------------------------------
(* class FileScanner, is_binary *)

\* Largest max_threads a caller passes to scan.
MaxThreadsCap == 4

\* The files under the scanned folder, in os.walk's order, and their bytes.
WalkOrder == <<"a.exe", "b.dll", "c.txt">>

Paths == Range(WalkOrder)

Bytes ==
    [a_exe |-> <<0>>, b_dll |-> <<77, 90, 0>>, c_txt |-> <<104, 105>>]

ContentOf(fp) ==
    CASE fp = "a.exe" -> Bytes.a_exe
      [] fp = "b.dll" -> Bytes.b_dll
      [] fp = "c.txt" -> Bytes.c_txt

Min(a, b) == IF a < b THEN a ELSE b

\* f.read(n) at offset pos.
Read(bytes, pos, n) == SubSeq(bytes, pos + 1, Min(pos + n, Len(bytes)))

chunksize == 1024

\* is_binary's loop on a file it could open: a null byte in some chunk, reading
\* chunks until a short one.
RECURSIVE is_binary_from(_, _)
is_binary_from(bytes, pos) ==
    LET chunk == Read(bytes, pos, chunksize) IN
    IF 0 \in Range(chunk) THEN TRUE
    ELSE IF Len(chunk) < chunksize THEN FALSE
    ELSE is_binary_from(bytes, pos + chunksize)

is_binary(fp) == is_binary_from(ContentOf(fp), 0)

\* hashlib.md5 of a byte string, for the byte strings of this model.
md5_hexdigest(bytes) ==
    CASE bytes = <<>> -> MD5_empty
      [] bytes = Bytes.a_exe -> MD5_nul
      [] bytes = Bytes.b_dll -> MD5_mz
      [] bytes = Bytes.c_txt -> MD5_hi

md5_blocksize == 4096

\* get_md5's loop: the chunks of 4096 bytes fed to md5_hash.update, in order.
RECURSIVE get_md5_chunks(_, _)
get_md5_chunks(bytes, pos) ==
    LET chunk == Read(bytes, pos, md5_blocksize) IN
    IF chunk = <<>> THEN <<>> ELSE chunk \o get_md5_chunks(bytes, pos + md5_blocksize)

get_md5(fp) == md5_hexdigest(get_md5_chunks(ContentOf(fp), 0))

\* A thread that was never started.
NoThread == [pc |-> "unstarted", binary |-> None, md5_hash |-> None, found |-> None, exc |-> "none"]

Alive(fp) == thread[fp].pc \in {"is_binary", "DB", "get_md5", "exists", "append", "close"}

Workers == {fp \in Paths : Alive(fp)}

\* Variant: a thread ended by an exception still counted.
active_count_leaks_dead ==
    1 + Cardinality({fp \in Paths : thread[fp].pc \notin {"unstarted", "finished"}})
      + (IF netPc \in {"while", "update", "scan", "sleep"} THEN 1 ELSE 0)

\* threading.active_count(): the main thread and every started thread still running.
active_count ==
    1 + Cardinality(Workers) + (IF netPc \in {"while", "update", "scan", "sleep"} THEN 1 ELSE 0)

\* Variant: the loop without its test of active_count.
admits_always == TRUE

\* Line 195: if threading.active_count() < max_threads.
admits == active_count < max_threads

\* FileScanner.scan(folder, max_threads): lines 190-192.
scan(m) ==
    /\ scanPc = "idle"
    /\ max_threads' = m
    /\ fp_gen' = listing
    /\ count' = 0
    /\ scanPc' = "while"
    /\ UNCHANGED <<listing, s_bound, scan_exc, bad_files, printed, thread>>
    /\ UNCHANGED <<storeVars, netVars>>

\* Lines 195-200 with a path left: start a thread on next(fp_gen), count it.
scan_start_thread ==
    /\ scanPc = "while"
    /\ admits
    /\ fp_gen # <<>>
    /\ thread' = [thread EXCEPT ![Head(fp_gen)] = [NoThread EXCEPT !.pc = "is_binary"]]
    /\ fp_gen' = Tail(fp_gen)
    /\ count' = count + 1
    /\ s_bound' = TRUE
    /\ UNCHANGED <<listing, max_threads, scanPc, scan_exc, bad_files, printed>>
    /\ UNCHANGED <<storeVars, netVars>>

\* Lines 195-196 with the generator exhausted: next(fp_gen) raises StopIteration.
scan_StopIteration ==
    /\ scanPc = "while"
    /\ admits
    /\ fp_gen = <<>>
    /\ scanPc' = "except"
    /\ UNCHANGED <<listing, max_threads, fp_gen, count, s_bound, scan_exc, bad_files,
                   printed, thread>>
    /\ UNCHANGED <<storeVars, netVars>>

\* Variant: next(fp_gen) evaluated before the test of active_count, so a path is
\* taken and dropped each time no slot is free.
scan_sleep_discards ==
    /\ scanPc = "while"
    /\ ~admits
    /\ scanPc' = "sleep"
    /\ fp_gen' = IF fp_gen = <<>> THEN fp_gen ELSE Tail(fp_gen)
    /\ UNCHANGED <<listing, max_threads, count, s_bound, scan_exc, bad_files,
                   printed, thread>>
    /\ UNCHANGED <<storeVars, netVars>>

\* Lines 201-202: no free slot, sleep 0.01 s.
scan_sleep ==
    /\ scanPc = "while"
    /\ ~admits
    /\ scanPc' = "sleep"
    /\ UNCHANGED <<listing, max_threads, fp_gen, count, s_bound, scan_exc, bad_files,
                   printed, thread>>
    /\ UNCHANGED <<storeVars, netVars>>

scan_wake ==
    /\ scanPc = "sleep"
    /\ scanPc' = "while"
    /\ UNCHANGED <<listing, max_threads, fp_gen, count, s_bound, scan_exc, bad_files,
                   printed, thread>>
    /\ UNCHANGED <<storeVars, netVars>>

\* Lines 203-208: the summary. len(s) with s never assigned is an UnboundLocalError.
scan_summary ==
    /\ scanPc = "except"
    /\ IF s_bound
       THEN /\ printed' = [done |-> TRUE, count |-> count, infected |-> bad_files]
            /\ scanPc' = "done"
            /\ UNCHANGED scan_exc
       ELSE /\ scanPc' = "raised"
            /\ scan_exc' = "UnboundLocalError"
            /\ UNCHANGED printed
    /\ UNCHANGED <<listing, max_threads, fp_gen, count, s_bound, bad_files, thread>>
    /\ UNCHANGED <<storeVars, netVars>>

\* Line 197 when the OS has no thread left: t.start() raises RuntimeError, which
\* "except StopIteration" does not catch; the path next(fp_gen) gave is gone.
scan_start_RuntimeError ==
    /\ scanPc = "while"
    /\ admits
    /\ fp_gen # <<>>
    /\ fp_gen' = Tail(fp_gen)
    /\ scanPc' = "raised"
    /\ scan_exc' = "RuntimeError"
    /\ UNCHANGED <<listing, max_threads, count, s_bound, bad_files, printed, thread>>
    /\ UNCHANGED <<storeVars, netVars>>

ScanFrame == UNCHANGED <<listing, max_threads, scanPc, fp_gen, count, s_bound, scan_exc, printed>>

\* The thread ends by an uncaught exception: threading prints the traceback.
Dies(fp, e) == [thread[fp] EXCEPT !.pc = "died", !.exc = e]

\* Line 183, is_binary(fp): open(fp, 'rb') may raise; only PermissionError is
\* caught (printed, result False). Not binary: the thread is done.
t_is_binary(fp) ==
    /\ thread[fp].pc = "is_binary"
    /\ \E outcome \in {"opened", "PermissionError", "FileNotFoundError"} :
        thread' = [thread EXCEPT ![fp] =
            CASE outcome = "FileNotFoundError" -> Dies(fp, outcome)
              [] outcome = "PermissionError" ->
                    [@ EXCEPT !.pc = "finished", !.binary = "False", !.exc = outcome]
              [] OTHER ->
                    IF is_binary(fp)
                    THEN [@ EXCEPT !.pc = "DB", !.binary = "True"]
                    ELSE [@ EXCEPT !.pc = "finished", !.binary = "False"]]
    /\ ScanFrame
    /\ UNCHANGED bad_files
    /\ UNCHANGED <<storeVars, netVars>>

\* Line 184, with DB() as db: the thread's own handle.
t_DB(fp) ==
    /\ thread[fp].pc = "DB"
    /\ thread' = [thread EXCEPT ![fp].pc = "get_md5"]
    /\ ScanFrame
    /\ UNCHANGED bad_files
    /\ UNCHANGED <<storeVars, netVars>>

\* Line 185, get_md5(fp): open(fp, "rb") may raise; DB.__exit__ closes the
\* handle and the exception ends the thread.
t_get_md5(fp) ==
    /\ thread[fp].pc = "get_md5"
    /\ \E outcome \in {"opened", "PermissionError", "FileNotFoundError"} :
        thread' = [thread EXCEPT ![fp] =
            IF outcome = "opened"
            THEN [@ EXCEPT !.pc = "exists", !.md5_hash = get_md5(fp)]
            ELSE Dies(fp, outcome)]
    /\ ScanFrame
    /\ UNCHANGED bad_files
    /\ UNCHANGED <<storeVars, netVars>>

\* Line 186, db.exists('md5_hash', 'virus_md5_hashes', md5_hash) on the file as
\* committed; a locked or unreadable database raises OperationalError.
t_exists(fp) ==
    /\ thread[fp].pc = "exists"
    /\ \E outcome \in {"answered", "OperationalError"} :
        LET r == SELECT(db_file, "md5_hash", "virus_md5_hashes", thread[fp].md5_hash) IN
        thread' = [thread EXCEPT ![fp] =
            IF outcome = "OperationalError" \/ r = "OperationalError"
            THEN Dies(fp, "OperationalError")
            ELSE [@ EXCEPT !.pc = IF r = "True" THEN "append" ELSE "close", !.found = r]]
    /\ ScanFrame
    /\ UNCHANGED bad_files
    /\ UNCHANGED <<storeVars, netVars>>

\* Variant: the append outside the "if db.exists".
t_append_always(fp) ==
    /\ thread[fp].pc \in {"append", "close"}
    /\ bad_files' = Append(bad_files, fp)
    /\ thread' = [thread EXCEPT ![fp].pc = IF @ = "append" THEN "close" ELSE "finished"]
    /\ ScanFrame
    /\ UNCHANGED <<storeVars, netVars>>

\* Line 187, self._bad_files.append(fp).
t_append(fp) ==
    /\ thread[fp].pc = "append"
    /\ bad_files' = Append(bad_files, fp)
    /\ thread' = [thread EXCEPT ![fp].pc = "close"]
    /\ ScanFrame
    /\ UNCHANGED <<storeVars, netVars>>

\* Variant: the thread also inserts the digest it computed into virus_md5_hashes.
t_txn_records_digest(fp) ==
    [active |-> TRUE, image |-> INSERT(db_file, "virus_md5_hashes", thread[fp].md5_hash)]

\* The transaction of the thread's own handle when it is closed: the thread ran
\* at most one SELECT (line 186), which opens none.
t_txn(fp) == NoTxn

\* DB.__exit__ -> DB.close: commit what the handle's transaction holds, close;
\* the thread returns.
t_close(fp) ==
    /\ thread[fp].pc = "close"
    /\ thread' = [thread EXCEPT ![fp].pc = "finished"]
    /\ db_file' = handle_commit(db_file, t_txn(fp))
    /\ ScanFrame
    /\ UNCHANGED bad_files
    /\ UNCHANGED <<conn, txn, ret, err, added, reader_ret>>
    /\ UNCHANGED netVars

\* No file descriptor left (EMFILE): sqlite3.connect in DB() fails.
t_DB_OperationalError(fp) ==
    /\ thread[fp].pc = "DB"
    /\ thread' = [thread EXCEPT ![fp] = Dies(fp, "OperationalError: unable to open database file")]
    /\ ScanFrame
    /\ UNCHANGED bad_files
    /\ UNCHANGED <<storeVars, netVars>>

\* No file descriptor left (EMFILE): open() in is_binary or get_md5 raises OSError.
t_open_OSError(fp) ==
    /\ thread[fp].pc \in {"is_binary", "get_md5"}
    /\ thread' = [thread EXCEPT ![fp] = Dies(fp, "OSError")]
    /\ ScanFrame
    /\ UNCHANGED bad_files
    /\ UNCHANGED <<storeVars, netVars>>

\* Sub-sequences of a sequence, in its order.
RECURSIVE SubSeqs(_)
SubSeqs(q) ==
    IF q = <<>> THEN {<<>>}
    ELSE LET rest == SubSeqs(Tail(q)) IN rest \cup {<<Head(q)>> \o r : r \in rest}

\* The store as Main leaves it before scanning: tables created, some hashes committed.
SeededFile(hashes) ==
    [tables |-> TRUE, rows |-> [EmptyRows EXCEPT !["virus_md5_hashes"] = hashes]]

InitScanner ==
    /\ listing \in SubSeqs(WalkOrder)
    /\ max_threads = 0
    /\ scanPc = "idle"
    /\ fp_gen = <<>>
    /\ count = 0
    /\ s_bound = FALSE
    /\ scan_exc = "none"
    /\ bad_files = <<>>
    /\ printed = [done |-> FALSE, count |-> 0, infected |-> <<>>]
    /\ thread = [fp \in Paths |-> NoThread]

-----------------------------------------------------------------------------
(* class NetworkScanner *)

\* Passes of the run loop the model follows.
MaxTicks == 5

NoAddr == [ip |-> None, port |-> 0]

\* The connections psutil.net_connections() may report, in its order.
ConnTable ==
    << [laddr |-> [ip |-> "192.168.1.5", port |-> 50000],
        raddr |-> [ip |-> "203.0.113.9", port |-> 443], pid |-> 100, status |-> "ESTABLISHED"],
       [laddr |-> [ip |-> "10.0.0.66", port |-> 8080],
        raddr |-> NoAddr, pid |-> 101, status |-> "NONE"],
       [laddr |-> [ip |-> "192.168.1.5", port |-> 50001],
        raddr |-> [ip |-> "198.51.100.7", port |-> 80], pid |-> 100, status |-> "CLOSE_WAIT"] >>

\* psutil.Process(pid).name().
ProcessName(pid) == IF pid = 100 THEN "svchost" ELSE "nc"

\* Line 233: body = f"{name}\n{ip}:{port} - {pid}".
Body(ip, port, pid) == <<ProcessName(pid), ip, port, pid>>

\* Variant: notify without the test on _displayed_notifications.
notify_no_memory(st, ip, port, pid) ==
    [st EXCEPT !.delivered = Append(@, Body(ip, port, pid))]

\* NetworkScanner.notify on the pair (displayed, delivered): print or toast the
\* body and remember it, unless it was displayed before.
notify(st, ip, port, pid) ==
    IF Body(ip, port, pid) \notin Range(st.displayed)
    THEN [st EXCEPT !.displayed = Append(@, Body(ip, port, pid)),
                    !.delivered = Append(@, Body(ip, port, pid))]
    ELSE st

HighRisk(ip) == SELECT(db_file, "ip", "high_risk_ips", ip) = "True"

\* A call of db.exists('ip', 'high_risk_ips', ip), entered in the log of the pass.
exists_call(st, ip) == [st EXCEPT !.looked_up = Append(@, ip)]

\* A call of self.notify(ip, port, pid), entered in the log of the pass.
notify_call(st, ip, port, pid) ==
    notify([st EXCEPT !.notified = Append(@, <<ip, port, pid>>)], ip, port, pid)

\* Variant: the status test with "and", which skips NONE and CLOSE_WAIT.
scan_conn_filters_status(st, c) ==
    IF c.status # "NONE" /\ c.status # "CLOSE_WAIT"
    THEN LET l == exists_call(st, c.laddr.ip)
             st1 == IF HighRisk(c.laddr.ip)
                    THEN notify_call(l, c.laddr.ip, c.laddr.port, c.pid) ELSE l
             r == IF c.raddr # NoAddr THEN exists_call(st1, c.raddr.ip) ELSE st1 IN
         IF c.raddr # NoAddr /\ HighRisk(c.raddr.ip)
         THEN notify_call(r, c.raddr.ip, c.raddr.port, c.pid) ELSE r
    ELSE st

\* The body of scan's for loop for one connection (lines 225-230); line 228,
\* "conn.raddr and db.exists(...)", looks the remote address up only when present.
scan_conn(st, c) ==
    IF c.status # "NONE" \/ c.status # "CLOSE_WAIT"
    THEN LET l == exists_call(st, c.laddr.ip)
             st1 == IF HighRisk(c.laddr.ip)
                    THEN notify_call(l, c.laddr.ip, c.laddr.port, c.pid) ELSE l
             r == IF c.raddr # NoAddr THEN exists_call(st1, c.raddr.ip) ELSE st1 IN
         IF c.raddr # NoAddr /\ HighRisk(c.raddr.ip)
         THEN notify_call(r, c.raddr.ip, c.raddr.port, c.pid) ELSE r
    ELSE st

\* scan's for loop over the first n connections of the snapshot.
RECURSIVE scan_loop(_, _, _)
scan_loop(st, conns, n) ==
    IF n = 0 THEN st ELSE scan_conn(scan_loop(st, conns, n - 1), conns[n])

\* The bodies of the addresses of a snapshot that are high-risk in the store.
MatchingBodies(conns) ==
    {Body(conns[i].laddr.ip, conns[i].laddr.port, conns[i].pid) :
        i \in {j \in DOMAIN conns : HighRisk(conns[j].laddr.ip)}}
    \cup {Body(conns[i].raddr.ip, conns[i].raddr.port, conns[i].pid) :
        i \in {j \in DOMAIN conns : conns[j].raddr # NoAddr /\ HighRisk(conns[j].raddr.ip)}}

NetFrame == UNCHANGED <<storeVars, scanVars>>

\* Line 223, "with DB() as db": the handle of the pass ran only SELECTs, and its
\* close at the end of the block, or when the block raises, commits no transaction.
scan_close ==
    /\ db_file' = handle_commit(db_file, NoTxn)
    /\ UNCHANGED <<conn, txn, ret, err, added, reader_ret>>
    /\ UNCHANGED scanVars

NoCalls == [looked_up |-> <<>>, notified |-> <<>>]

\* The state scan's for loop starts from: what was displayed, and an empty log.
scan_begin ==
    [displayed |-> displayed_notifications, delivered |-> delivered,
     looked_up |-> <<>>, notified |-> <<>>]

\* Thread.start() on the monitor: run() begins.
start ==
    /\ netPc = "unstarted"
    /\ netPc' = "while"
    /\ UNCHANGED <<running, current_connections, displayed_notifications, delivered,
                   net_exc, ticks, persisting, calls>>
    /\ NetFrame

\* Variant: "while True".
run_while_ignores_stop ==
    /\ netPc = "while"
    /\ ticks < MaxTicks
    /\ netPc' = "update"
    /\ UNCHANGED <<running, current_connections, displayed_notifications, delivered,
                   net_exc, ticks, persisting, calls>>
    /\ NetFrame

\* Line 243: while self._running.
run_while ==
    /\ netPc = "while"
    /\ running => ticks < MaxTicks
    /\ netPc' = IF running THEN "update" ELSE "exited"
    /\ UNCHANGED <<running, current_connections, displayed_notifications, delivered,
                   net_exc, ticks, persisting, calls>>
    /\ NetFrame

\* Line 244: update_current_connections replaces the snapshot wholesale.
run_update_current_connections ==
    /\ netPc = "update"
    /\ current_connections' \in SubSeqs(ConnTable)
    /\ netPc' = "scan"
    /\ UNCHANGED <<running, displayed_notifications, delivered, net_exc, ticks, persisting, calls>>
    /\ NetFrame

\* Line 245: NetworkScanner.scan over the snapshot, with a DB handle of its own.
run_scan ==
    /\ netPc = "scan"
    /\ LET st == scan_loop(scan_begin, current_connections, Len(current_connections)) IN
       /\ displayed_notifications' = st.displayed
       /\ delivered' = st.delivered
       /\ calls' = [looked_up |-> st.looked_up, notified |-> st.notified]
    /\ persisting' = IF ticks = 0 THEN MatchingBodies(current_connections)
                     ELSE persisting \cap MatchingBodies(current_connections)
    /\ ticks' = ticks + 1
    /\ netPc' = "sleep"
    /\ UNCHANGED <<running, current_connections, net_exc>>
    /\ scan_close

\* Line 246: time.sleep(self._timer) returns.
run_sleep ==
    /\ netPc = "sleep"
    /\ netPc' = "while"
    /\ UNCHANGED <<running, current_connections, displayed_notifications, delivered,
                   net_exc, ticks, persisting, calls>>
    /\ NetFrame

\* NetworkScanner.stop, called from another thread.
stop ==
    /\ running' = FALSE
    /\ UNCHANGED <<netPc, current_connections, displayed_notifications, delivered,
                   net_exc, ticks, persisting, calls>>
    /\ NetFrame

\* psutil.net_connections() raises (AccessDenied, unsupported platform): nothing
\* in run() catches it and the thread ends.
run_update_raises ==
    /\ netPc = "update"
    /\ netPc' = "crashed"
    /\ net_exc' = "psutil.Error"
    /\ UNCHANGED <<running, current_connections, displayed_notifications, delivered,
                   ticks, persisting, calls>>
    /\ NetFrame

\* scan raises at its n-th connection (the store is locked, the process of the
\* connection is gone): the connections before it were handled, the thread ends.
run_scan_raises(n, e) ==
    /\ netPc = "scan"
    /\ n \in DOMAIN current_connections
    /\ LET st == scan_loop(scan_begin, current_connections, n - 1) IN
       /\ displayed_notifications' = st.displayed
       /\ delivered' = st.delivered
       /\ calls' = [looked_up |-> st.looked_up, notified |-> st.notified]
    /\ netPc' = "crashed"
    /\ net_exc' = e
    /\ UNCHANGED <<running, current_connections, ticks, persisting>>
    /\ scan_close

\* NetworkScanner.__init__: running, a first snapshot, nothing displayed yet.
InitNet ==
    /\ netPc = "unstarted"
    /\ running = TRUE
    /\ current_connections \in SubSeqs(ConnTable)
    /\ displayed_notifications = <<>>
    /\ delivered = <<>>
    /\ net_exc = "none"
    /\ ticks = 0
    /\ persisting = {}
    /\ calls = NoCalls

\* No monitor object is in use.
NoNet ==
    /\ InitNet
    /\ current_connections = <<>>

NextNet ==
    \/ start
    \/ run_while
    \/ run_update_current_connections
    \/ run_scan
    \/ run_sleep
    \/ stop
    \/ run_update_raises
    \/ \E n \in 1..Len(ConnTable) :
         \E e \in {"sqlite3.OperationalError", "psutil.NoSuchProcess"} : run_scan_raises(n, e)

\* The store as Main leaves it, with some high-risk addresses committed.
InitNetStore ==
    /\ \E ips \in SubSeqs(<<"203.0.113.9", "10.0.0.66">>) :
         db_file = [tables |-> TRUE, rows |-> [EmptyRows EXCEPT !["high_risk_ips"] = ips]]
    /\ conn = "closed"
    /\ txn = NoTxn
    /\ ret = NoRet
    /\ err = "none"
    /\ added = [t \in Tables |-> Range(db_file.rows[t])]
    /\ reader_ret = NoReaderRet

\* The monitor alone: no scan is running.
InitMonitor ==
    /\ InitNetStore
    /\ InitScanner
    /\ listing = <<>>
    /\ InitNet

SpecNet == InitMonitor /\ [][NextNet]_vars

\* The monitor's thread is scheduled and its sleep ends.
FairNet ==
    /\ WF_vars(run_while)
    /\ WF_vars(run_update_current_connections \/ run_update_raises)
    /\ WF_vars(run_scan \/ \E n \in 1..Len(ConnTable) :
                 \E e \in {"sqlite3.OperationalError", "psutil.NoSuchProcess"} :
                    run_scan_raises(n, e))
    /\ WF_vars(run_sleep)

FairSpecNet == InitMonitor /\ [][NextNet]_vars /\ FairNet

-----------------------------------------------------------------------------
(* The specifications of the store and of the scanner *)

\* The store alone: no scan is running, no monitor is in use.
InitStoreAlone ==
    /\ InitStore
    /\ InitScanner
    /\ listing = <<>>
    /\ NoNet

SpecStore == InitStoreAlone /\ [][NextStore]_vars

InitScan ==
    /\ \E hashes \in SubSeqs(<<MD5_nul, MD5_hi>>) : db_file = SeededFile(hashes)
    /\ conn = "closed"
    /\ txn = NoTxn
    /\ ret = NoRet
    /\ err = "none"
    /\ added = [t \in Tables |-> Range(db_file.rows[t])]
    /\ reader_ret = NoReaderRet
    /\ InitScanner
    /\ NoNet

NextScan ==
    \/ \E m \in 0..MaxThreadsCap : scan(m)
    \/ scan_start_thread
    \/ scan_StopIteration
    \/ scan_sleep
    \/ scan_wake
    \/ scan_summary
    \/ \E fp \in Paths : t_is_binary(fp)
    \/ \E fp \in Paths : t_DB(fp)
    \/ \E fp \in Paths : t_get_md5(fp)
    \/ \E fp \in Paths : t_exists(fp)
    \/ \E fp \in Paths : t_append(fp)
    \/ \E fp \in Paths : t_close(fp)

\* The scan where per-file faults (vanished, unreadable, store locked) may happen.
SpecScan == InitScan /\ [][NextScan]_vars

\* The same, where the OS may also run out of file descriptors or threads.
NextScanRes ==
    \/ NextScan
    \/ scan_start_RuntimeError
    \/ \E fp \in Paths : t_DB_OperationalError(fp)
    \/ \E fp \in Paths : t_open_OSError(fp)

SpecScanRes == InitScan /\ [][NextScanRes]_vars

\* Threads are scheduled and sleeps end: every step of scan and of each thread is
\* eventually taken when it stays possible.
FairScan ==
    /\ WF_vars(scan_start_thread)
    /\ WF_vars(scan_StopIteration)
    /\ WF_vars(scan_sleep)
    /\ WF_vars(scan_wake)
    /\ WF_vars(scan_summary)
    /\ \A fp \in Paths :
        WF_vars(t_is_binary(fp) \/ t_DB(fp) \/ t_get_md5(fp) \/ t_exists(fp)
                \/ t_append(fp) \/ t_close(fp))

FairSpecScan == InitScan /\ [][NextScan]_vars /\ FairScan

\* A scan of one binary file while a monitor object exists: the store holds what
\* ingestion committed, one address and, or not, the digest of the file.
InitSession ==
    /\ \E hashes \in SubSeqs(<<MD5_nul>>) :
         db_file = [tables |-> TRUE,
                    rows |-> [EmptyRows EXCEPT !["virus_md5_hashes"] = hashes,
                                               !["high_risk_ips"] = <<"203.0.113.9">>]]
    /\ conn = "closed"
    /\ txn = NoTxn
    /\ ret = NoRet
    /\ err = "none"
    /\ added = [t \in Tables |-> Range(db_file.rows[t])]
    /\ reader_ret = NoReaderRet
    /\ InitScanner
    /\ listing = <<"a.exe">>
    /\ InitNet
    /\ current_connections = <<>>

NextSession == NextScan \/ NextNet

SpecSession == InitSession /\ [][NextSession]_vars

-----------------------------------------------------------------------------
(* Claims about the file scanner *)

\* C1: during scan, the compare_against_database threads started and not yet
\* finished never number more than max_threads.
C1_ConcurrencyBound == Cardinality(Workers) <= max_threads

\* C1 witness: three threads are running under max_threads = 4 and the loop,
\* finding no free slot, sleeps.
C1_Witness ==
    /\ Cardinality(Workers) = 3
    /\ max_threads = 4
    /\ scanPc = "sleep"

\* The paths whose thread found its digest in the store.
Matched == {fp \in Paths : thread[fp].found = "True"}

\* C2: when scan prints its summary the generator is exhausted and no started
\* thread is still running, so every path whose lookup matches is in the
\* printed infected list.
C2_SummaryAfterAllWorkers ==
    printed.done =>
        /\ fp_gen = <<>>
        /\ Workers = {}
        /\ Matched \subseteq Range(printed.infected)

\* What the store holds of a path's digest.
DigestInStore(fp) == get_md5(fp) \in Range(db_file.rows["virus_md5_hashes"])

\* C6: for every thread that has ended, its path is in _bad_files exactly when
\* the file was classified binary, the lookup was made and the store held the
\* file's digest; no path is in _bad_files twice; a directory of one binary
\* file whose digest is in the store gives exactly that path.
C6_InfectedList ==
    /\ \A fp \in Paths :
        thread[fp].pc \in {"finished", "died"} =>
            (fp \in Range(bad_files)
                <=> (thread[fp].binary = "True" /\ thread[fp].found # None /\ DigestInStore(fp)))
    /\ \A fp \in Paths : thread[fp].pc = "unstarted" => fp \notin Range(bad_files)
    /\ Cardinality(Range(bad_files)) = Len(bad_files)
    /\ \A fp \in Paths :
        (listing = <<fp>> /\ is_binary(fp) /\ DigestInStore(fp) /\ thread[fp].pc = "finished"
            /\ thread[fp].exc = "none")
            => bad_files = <<fp>>

\* C6 witness: the directory holds only a.exe, the store its digest; the thread
\* has finished and a.exe is the infected list.
C6_Witness ==
    /\ listing = <<"a.exe">>
    /\ DigestInStore("a.exe")
    /\ thread["a.exe"].pc = "finished"
    /\ bad_files = <<"a.exe">>
    /\ scanPc = "done"

\* The paths get_md5 has hashed.
Hashed == {fp \in Paths : thread[fp].md5_hash # None}

\* C7: with every file classified non-binary and the store empty, the summary
\* reports no infected file, nothing was hashed, and the count it prints is the
\* number of files hashed (zero), not the number enumerated.
C7_CountOnlyHashed ==
    (/\ printed.done
     /\ db_file.rows["virus_md5_hashes"] = <<>>
     /\ \A fp \in Range(listing) : ~is_binary(fp))
        => /\ Hashed = {}
           /\ printed.infected = <<>>
           /\ printed.count = Cardinality(Hashed)

\* A file that vanished or became unreadable between enumeration and open.
PerFileFailure(fp) == thread[fp].exc \in {"FileNotFoundError", "PermissionError"}

Started == {fp \in Paths : thread[fp].pc # "unstarted"}

\* The parts of C8: what holds of a failed file, and the completed scan.
C8_Skipped ==
    \A fp \in Paths :
        PerFileFailure(fp) =>
            /\ scanPc # "raised"
            /\ fp \notin Range(bad_files)
            /\ thread[fp].pc \in {"finished", "died"}

C8_ScanCompleted ==
    /\ scanPc = "done"
    /\ printed.done
    /\ printed.count = Len(listing)
    /\ Started = Range(listing)

\* C8: a file that fails with NotFound or PermissionDenied is skipped (never
\* reported infected, its error recorded by the thread) and never makes scan
\* raise; after such a failure scan still starts a thread for every enumerated
\* file and prints its summary.
C8_FailureNeverAborts ==
    /\ []C8_Skipped
    /\ (\E fp \in Paths : PerFileFailure(fp)) ~> C8_ScanCompleted

\* C8 witness: one file vanished before is_binary, another became unreadable
\* before get_md5, and scan has printed its summary for all three files.
C8_Witness ==
    /\ thread["a.exe"].exc = "FileNotFoundError"
    /\ thread["a.exe"].binary = None
    /\ thread["b.dll"].exc = "PermissionError"
    /\ thread["b.dll"].binary = "True"
    /\ thread["b.dll"].pc = "died"
    /\ C8_ScanCompleted
    /\ printed.count = 3

\* The OS ran out of threads or file descriptors at some file.
ResourceExhausted ==
    \/ scan_exc = "RuntimeError"
    \/ \E fp \in Paths :
        thread[fp].exc \in {"OSError", "OperationalError: unable to open database file"}

\* C9: resource exhaustion at some file does not abort the scan: scan does not
\* raise, and once it has ended every enumerated file was admitted and the summary
\* was printed.
C9_ExhaustionNeverAborts ==
    ResourceExhausted =>
        /\ scanPc # "raised"
        /\ (scanPc = "done" => (printed.done /\ Started = Range(listing)))

-----------------------------------------------------------------------------
(* Claims about the network monitor *)

Count(seq, x) == Cardinality({i \in DOMAIN seq : seq[i] = x})

IsPrefix(p, q) == Len(p) <= Len(q) /\ SubSeq(q, 1, Len(p)) = p

\* The parts of C5: deliveries per body, and the steps on _displayed_notifications.
C5_OncePerBody ==
    /\ \A b \in Range(delivered) : Count(delivered, b) = 1
    /\ ticks >= 1 => \A b \in persisting : Count(delivered, b) = 1
    /\ Range(delivered) = Range(displayed_notifications)

C5_OnlyGrows == IsPrefix(displayed_notifications, displayed_notifications')

\* C5: no alert body is delivered twice in the lifetime of the monitor; a body
\* that matched in every completed pass (5 of them at the bound) was delivered
\* exactly once; what was delivered is what is remembered; and no step removes
\* anything from _displayed_notifications.
C5_AlertOnce == []C5_OncePerBody /\ [][C5_OnlyGrows]_vars

\* C5 witness: the connection to 203.0.113.9 matched in each of 5 completed
\* passes and its alert was delivered once.
C5_Witness ==
    /\ ticks = 5
    /\ Body("203.0.113.9", 443, 100) \in persisting
    /\ Count(delivered, Body("203.0.113.9", 443, 100)) = 1

\* The steps of C10.
C10_StopSticks == ~running => ~running'

C10_NoFurtherTick == (~running /\ netPc' = "update") => netPc = "update"

C10_StoppedIsTerminal ==
    netPc = "exited" =>
        /\ netPc' = "exited"
        /\ UNCHANGED <<current_connections, displayed_notifications, delivered, ticks>>

\* C10: once stop() has set _running to False nothing sets it back; the loop
\* begins no pass while _running is False (the pass in progress and its sleep
\* may complete); once run() has returned, no snapshot, lookup or alert happens;
\* and after stop() the started loop does end.
C10_StopTerminates ==
    /\ [][C10_StopSticks /\ C10_NoFurtherTick /\ C10_StoppedIsTerminal]_vars
    /\ [](netPc = "exited" => ~running)
    /\ (~running /\ netPc # "unstarted") ~> (netPc \in {"exited", "crashed"})

\* C10 witness: stop() came during the second pass; the loop finished it and returned.
C10_Witness ==
    /\ netPc = "exited"
    /\ ~running
    /\ ticks = 2

-----------------------------------------------------------------------------
(* Further claims about the network monitor and the file scanner *)

Polling == netPc \in {"while", "update", "scan", "sleep"}

\* C11: a failure inside one pass (reading the connection table, a store
\* lookup, resolving the process of a connection) leaves the run loop polling;
\* the loop is left only through stop().
C11_TickFailureSkipped ==
    /\ net_exc # "none" => Polling \/ (netPc = "exited" /\ ~running)
    /\ netPc \notin {"unstarted", "while", "update", "scan", "sleep"}
          => (netPc = "exited" /\ ~running)

\* The thread of fp died in db.exists.
LookupFailed(fp) ==
    /\ thread[fp].pc = "died"
    /\ thread[fp].exc = "OperationalError"
    /\ thread[fp].md5_hash # None

VerifiedClean(fp) == thread[fp].pc = "finished" /\ thread[fp].found = "False"

\* What the summary scan printed says of a path: an INFECTED line or nothing.
ReportedAs(fp) == IF fp \in Range(printed.infected) THEN "INFECTED" ELSE "not listed"

\* C12: a file whose store lookup failed is never recorded infected, scan does
\* not raise, and the printed summary reports it differently from a file that
\* was verified clean.
C12_LookupFailureReported ==
    \A fp \in Paths :
        LookupFailed(fp) =>
            /\ fp \notin Range(bad_files)
            /\ scanPc # "raised"
            /\ printed.done =>
                 \A other \in Paths : VerifiedClean(other) => ReportedAs(fp) # ReportedAs(other)

\* C15: scan called with max_threads <= 0 raises a configuration error at once:
\* no thread is started, no path is taken from the generator, and scan neither
\* runs nor waits.
C15_NonPositiveBoundRejected ==
    (scanPc # "idle" /\ max_threads <= 0) =>
        /\ scanPc = "raised"
        /\ Started = {}
        /\ fp_gen = listing

\* C17: with max_threads >= 1, fair scheduling and threads that end, scan
\* exhausts the generator and reaches its summary block: the loop does not
\* wait for a free slot forever.
C17_ScanReachesSummary ==
    (scanPc = "while" /\ max_threads >= 1) ~> (scanPc \in {"except", "done", "raised"})

\* C20: scan over a folder with no file starts no thread and, once it has ended,
\* has printed a summary with count 0 and no infected file, without raising.
C20_EmptyFolderCompletes ==
    listing = <<>> =>
        /\ Started = {}
        /\ scanPc # "raised"
        /\ scanPc = "done" => (printed.done /\ printed.count = 0 /\ printed.infected = <<>>)

\* The paths next(fp_gen) has given so far.
Pulled == SubSeq(listing, 1, Len(listing) - Len(fp_gen))

\* The parts of C16: the paths taken are the threads started, and a path is
\* taken only in a step that passed the test of active_count.
C16_PulledAreStarted ==
    (scanPc # "idle" /\ scan_exc # "RuntimeError") =>
        /\ listing = Pulled \o fp_gen
        /\ Started = Range(Pulled)
        /\ count = Cardinality(Started)
        /\ scanPc \in {"except", "done", "raised"} =>
              (fp_gen = <<>> /\ count = Len(listing) /\ Started = Range(listing))

C16_PullOnlyWhenAdmitting ==
    (scanPc # "idle" /\ fp_gen' # fp_gen) =>
        /\ scanPc = "while" /\ admits
        /\ fp_gen' = Tail(fp_gen)
        /\ thread[Head(fp_gen)].pc = "unstarted"
        /\ \A fp \in Paths \ {Head(fp_gen)} : thread'[fp] = thread[fp]

\* C16: scan takes a path from the generator only in an iteration that found a
\* free slot, never while it waits; each path goes to one thread that was not
\* started before; and when the generator is exhausted the threads started are
\* the paths enumerated, count of them.
C16_ConsumedExactlyOnce == []C16_PulledAreStarted /\ [][C16_PullOnlyWhenAdmitting]_vars

\* The loop had to wait for a slot (max_threads = 2 runs one thread at a time)
\* and still started one thread per path.
C16_Witness ==
    /\ scanPc = "done"
    /\ max_threads = 2
    /\ Len(listing) = 3
    /\ count = 3
    /\ Started = Paths

\* C19: right after DB.reset(), before update() has loaded any feed record, the
\* three tables exist and DB.exists is False for every value of every table, on
\* the handle and in the file, whatever had been inserted before.
C19_ResetEmpties ==
    ret.op = "reset" =>
        /\ conn = "open"
        /\ db_file.tables /\ View.tables
        /\ \A t \in Tables : \A v \in FeedValues[t] \cup {None} :
              /\ ExistsAll(View)[t][v] = "False"
              /\ ExistsAll(db_file)[t][v] = "False"

\* reset came after a committed value had been found through another handle.
C19_Witness ==
    /\ ret.op = "reset"
    /\ reader_ret.result = "True"

\* The addresses of a snapshot in the order of the table: of each connection
\* the local one, then the remote one when there is one.
RECURSIVE Addresses(_)
Addresses(conns) ==
    IF conns = <<>> THEN <<>>
    ELSE LET c == Head(conns) IN
         <<[ip |-> c.laddr.ip, port |-> c.laddr.port, pid |-> c.pid]>>
         \o (IF c.raddr # NoAddr
             THEN <<[ip |-> c.raddr.ip, port |-> c.raddr.port, pid |-> c.pid]>>
             ELSE <<>>)
         \o Addresses(Tail(conns))

InHighRiskIps(a) == a.ip \in Range(db_file.rows["high_risk_ips"])

\* C18: a completed pass of scan looked up, in high_risk_ips, the local and the
\* present remote address of every connection of the current snapshot, whatever
\* its status, and nothing else (no connection of an earlier snapshot); notify
\* was called for exactly the addresses the table holds.
C18_EveryConnectionChecked ==
    netPc = "sleep" =>
        LET A == Addresses(current_connections)
            M == SelectSeq(A, InHighRiskIps) IN
        /\ calls.looked_up = [i \in 1..Len(A) |-> A[i].ip]
        /\ calls.notified = [i \in 1..Len(M) |-> <<M[i].ip, M[i].port, M[i].pid>>]

\* A later pass over a snapshot holding only the listening connection of status
\* NONE, whose local address is high-risk, after another snapshot raised an alert.
C18_Witness ==
    /\ netPc = "sleep"
    /\ ticks >= 2
    /\ current_connections = <<ConnTable[2]>>
    /\ calls.notified = << <<"10.0.0.66", 8080, 101>> >>
    /\ Body("203.0.113.9", 443, 100) \in Range(displayed_notifications)

\* The parts of C13: no step of a scanning thread, of scan, or of the monitor
\* changes the file of the store, and the tables hold what ingestion committed.
C13_StoreStep == db_file' = db_file

C13_StoreAsIngested ==
    /\ db_file.tables
    /\ \A t \in Tables : Range(db_file.rows[t]) = added[t]
    /\ conn = "closed" /\ ~txn.active

\* C13: scanning and monitoring leave the store as it was: under every
\* interleaving of the threads of scan (each with a handle of its own, closed
\* with a commit) and of the passes of the monitor, the three tables keep the
\* rows ingestion had committed.
C13_ScanLeavesStore == []C13_StoreAsIngested /\ [][C13_StoreStep]_vars

\* A thread found its digest in the store and closed its handle, and the
\* monitor completed a pass that raised an alert.
C13_Witness ==
    /\ thread["a.exe"].pc = "finished"
    /\ thread["a.exe"].found = "True"
    /\ ticks >= 1
    /\ calls.notified # <<>>

\* C14: a running monitor thread does not change how many threads scan keeps in
\* flight: scan finds no free slot only when max_threads - 1 of its own threads
\* are running, as without the monitor.
C14_MonitorIndependent ==
    (scanPc = "while" /\ ~admits) => 1 + Cardinality(Workers) >= max_threads

=============================================================================
